---- MODULE Spec2Model ----
(***************************************************************************)
(* Model of mandelbrot.rs (src/src/main.rs): the escape-time evaluator     *)
(* `mandelbrot` and the raster driver `draw_mandelbrot`.                   *)
(*                                                                         *)
(* Numbers.  An f64 is modelled as a fixed-point number, an integer count  *)
(* of 1/Scale units; a product is rounded to the nearest unit, as an f64   *)
(* product is rounded to the nearest representable value.  Every literal   *)
(* of the source (-2.1, 0.6, -1.2, 1.2, 2., 0.25, 0.75, 0.5, 1/8) is a     *)
(* whole number of units.  The u32 counter is modelled with U32Bits bits:  *)
(* what matters is that the counter and the budget have the same width.    *)
(***************************************************************************)
EXTENDS Integers, Sequences, FiniteSets

\* ------------------------------------------------------------------ bounds

\* Width in bits of the model's u32 (diverge_count, num_iterations).
U32Bits == 7

\* The small budgets of the evaluator's inputs are 0 .. MaxBudget.
MaxBudget == 4

\* The evaluator's input coordinates lie on a grid of CoordStep units with
\* real and imaginary parts in -MaxCoord*CoordStep .. MaxCoord*CoordStep.
MaxCoord == 10

\* The plotting area's pixel range is at most MaxW x MaxH samples.
MaxW == 4
MaxH == 3

\* ------------------------------------------------------------- arithmetic

\* Units per 1.0 of the fixed-point model of f64 (ComplexDouble's parts).
Scale == 40

\* The evaluator's input grid step: 1/4.
CoordStep == Scale \div 4

\* u32::MAX
U32Max == 2 ^ U32Bits - 1

\* f64 product a * b, rounded to the nearest unit.
Mul(a, b) == (2 * a * b + Scale) \div (2 * Scale)

\* f64 quotient a / n of a value by a sample count (an integer cast to f64).
DivBy(a, n) == (2 * a + n) \div (2 * n)

\* ComplexDouble::new(re, im)
Cx(re, im) == <<re, im>>

Re(z) == z[1]

Im(z) == z[2]

\* The square of the modulus, in units of 1/Scale^2.
NormSqr(z) == Re(z) * Re(z) + Im(z) * Im(z)

\* line 21: z.norm() > 2.   (faulty variant: the escape radius is 4.)
DivergedRadius4(z) == NormSqr(z) > 16 * Scale * Scale

Diverged(z) == NormSqr(z) > 4 * Scale * Scale

\* line 25: z.powi(2) + c, powi(2) being z * z.
NextZ(z, c) == Cx(Mul(Re(z), Re(z)) - Mul(Im(z), Im(z)) + Re(c),
                  Mul(Re(z), Im(z)) + Mul(Im(z), Re(z)) + Im(c))

\* line 20: the loop condition.
LoopCond(dc, n) == dc <= n

\* line 22: the value returned when the bound check fires.
BreachResult(dc) == dc

\* line 28: the value returned when the loop ends.
\* (faulty variant: the counter is returned instead of the budget.)
ExitResultCounter(dc, n) == dc

ExitResult(dc, n) == n

\* ------------------------------------------------------------------ state

VARIABLES
    \* mandelbrot's frame
    c,               \* the argument c
    num_iterations,  \* the argument num_iterations
    diverge_count,   \* the local diverge_count
    z,               \* the local z
    pc,              \* "loop" | "returned" | "panicked"
    ret,             \* the returned value, -1 before the return
    \* history of the call
    checks,          \* bound checks (line 21) made so far, saturating
    applied,         \* applications of z <- z^2 + c (line 25) so far, saturating
    breached,        \* a bound check found |z| > 2
    wrapped,         \* diverge_count += 1 wrapped around (release build)
    \* main and draw_mandelbrot's frame
    rpc,             \* the next statement of draw_mandelbrot / main
    samples,         \* the local samples: <<columns, rows>>
    step,            \* the local step: <<real step, imaginary step>>
    k,               \* the loop variable k
    calls            \* history: the collaborator calls made so far, in order

evalVars == <<c, num_iterations, diverge_count, z, pc, ret,
              checks, applied, breached, wrapped>>

renderVars == <<rpc, samples, step, k, calls>>

vars == <<evalVars, renderVars>>

\* No mandelbrot call is being followed step by step.
EvalIdle ==
    /\ c = <<0, 0>>
    /\ num_iterations = 0
    /\ diverge_count = 0
    /\ z = <<0, 0>>
    /\ pc = "idle"
    /\ ret = -1
    /\ checks = 0
    /\ applied = 0
    /\ breached = FALSE
    /\ wrapped = FALSE

\* main has not been started.
RenderIdle ==
    /\ rpc = "idle"
    /\ samples = <<0, 0>>
    /\ step = <<0, 0>>
    /\ k = 0
    /\ calls = <<>>

\* Saturation bound of the history counters.
HistCap == U32Max + 3

Sat(x) == IF x >= HistCap THEN HistCap ELSE x + 1

\* ------------------------------------------------------------ mandelbrot

Origin == Cx(0, 0)

GridCoords == {Cx(a * CoordStep, b * CoordStep) : a, b \in -MaxCoord .. MaxCoord}

\* The coordinates of tests::mandelbrot_test (lines 94-104).
TestCoords == {Cx(Scale \div 4, 3 * (Scale \div 4)), Cx(-Scale, Scale \div 2),
               Cx(0, 0), Cx(Scale \div 8, -(Scale \div 8))}

CoordSet == GridCoords \cup TestCoords

\* The budget of tests::mandelbrot_test (line 91).
NUM_ITERATIONS == 20

BudgetSet == (0 .. MaxBudget) \cup {NUM_ITERATIONS, U32Max - 1, U32Max}

\* lines 16-19: the call mandelbrot(c, num_iterations), its locals initialised.
InitEval ==
    /\ c \in CoordSet
    /\ num_iterations \in BudgetSet
    /\ diverge_count = 0
    /\ z = Cx(0, 0)
    /\ pc = "loop"
    /\ ret = -1
    /\ checks = 0
    /\ applied = 0
    /\ breached = FALSE
    /\ wrapped = FALSE
    /\ RenderIdle

\* lines 20, 28: the loop condition fails; num_iterations is returned.
WhileExit ==
    /\ pc = "loop"
    /\ ~LoopCond(diverge_count, num_iterations)
    /\ ret' = ExitResult(diverge_count, num_iterations)
    /\ pc' = "returned"
    /\ UNCHANGED <<c, num_iterations, diverge_count, z, checks, applied,
                   breached, wrapped, renderVars>>

\* lines 20-23: the bound check fires; diverge_count is returned.
Breach ==
    /\ pc = "loop"
    /\ LoopCond(diverge_count, num_iterations)
    /\ Diverged(z)
    /\ checks' = Sat(checks)
    /\ breached' = TRUE
    /\ ret' = BreachResult(diverge_count)
    /\ pc' = "returned"
    /\ UNCHANGED <<c, num_iterations, diverge_count, z, applied, wrapped, renderVars>>

\* lines 20-26: the bound check passes; one application, the counter grows.
Iterate ==
    /\ pc = "loop"
    /\ LoopCond(diverge_count, num_iterations)
    /\ ~Diverged(z)
    /\ diverge_count < U32Max
    /\ checks' = Sat(checks)
    /\ z' = NextZ(z, c)
    /\ applied' = Sat(applied)
    /\ diverge_count' = diverge_count + 1
    /\ UNCHANGED <<c, num_iterations, pc, ret, breached, wrapped, renderVars>>

\* line 26 at diverge_count = u32::MAX, overflow checks on (debug build):
\* "attempt to add with overflow", the call never returns.
IterateOverflowPanic ==
    /\ pc = "loop"
    /\ LoopCond(diverge_count, num_iterations)
    /\ ~Diverged(z)
    /\ diverge_count = U32Max
    /\ checks' = Sat(checks)
    /\ z' = NextZ(z, c)
    /\ applied' = Sat(applied)
    /\ pc' = "panicked"
    /\ UNCHANGED <<c, num_iterations, diverge_count, ret, breached, wrapped,
                   renderVars>>

\* line 26 at diverge_count = u32::MAX, overflow checks off (release build):
\* the counter wraps to 0 and the loop goes on.
IterateOverflowWrap ==
    /\ pc = "loop"
    /\ LoopCond(diverge_count, num_iterations)
    /\ ~Diverged(z)
    /\ diverge_count = U32Max
    /\ checks' = Sat(checks)
    /\ z' = NextZ(z, c)
    /\ applied' = Sat(applied)
    /\ diverge_count' = (diverge_count + 1) % (U32Max + 1)
    /\ wrapped' = TRUE
    /\ UNCHANGED <<c, num_iterations, pc, ret, breached, renderVars>>

NextEval ==
    \/ WhileExit
    \/ Breach
    \/ Iterate
    \/ IterateOverflowPanic
    \/ IterateOverflowWrap

SpecEval == InitEval /\ [][NextEval]_vars

\* The same specification with the fairness of a running call: execution of
\* the loop never stops of itself while a statement remains to be executed.
FairSpecEval == SpecEval /\ WF_vars(NextEval)

\* mandelbrot as a function of its arguments: the loop of lines 20-27 run to
\* its return.  NoReturn stands for a call whose counter overflows (a panic,
\* or a counter that has wrapped around).
NoReturn == 0 - 1

\* line 17, 19: the locals before the loop.
LoopStart == [dc |-> 0, z |-> Cx(0, 0), done |-> FALSE, ret |-> NoReturn]

\* One pass of the while loop (lines 20-27, then line 28) from the locals st;
\* nothing changes once the function has returned.
LoopPass(cc, n, st) ==
    IF st.done THEN st
    ELSE IF ~LoopCond(st.dc, n)
         THEN [st EXCEPT !.done = TRUE, !.ret = ExitResult(st.dc, n)]
    ELSE IF Diverged(st.z)
         THEN [st EXCEPT !.done = TRUE, !.ret = BreachResult(st.dc)]
    ELSE IF st.dc = U32Max
         THEN [st EXCEPT !.done = TRUE, !.ret = NoReturn]
    ELSE [st EXCEPT !.dc = st.dc + 1, !.z = NextZ(st.z, cc)]

\* m passes of the loop from st (evaluated by halving m; a pass after the
\* return changes nothing, so the second half is skipped after a return).
RECURSIVE LoopPasses(_, _, _, _)
LoopPasses(cc, n, st, m) ==
    IF m = 0 THEN st
    ELSE IF m = 1 THEN LoopPass(cc, n, st)
    ELSE LET half == LoopPasses(cc, n, st, m \div 2)
         IN  IF half.done THEN half
             ELSE LoopPasses(cc, n, half, m - (m \div 2))

\* The loop makes at most num_iterations + 2 passes: one for each value
\* 0 .. num_iterations of the counter, and the pass whose condition fails.
mandelbrot(cc, n) == LoopPasses(cc, n, LoopStart, n + 2).ret

\* ------------------------------------------------------- draw_mandelbrot

\* line 60
NUM_CONVERGE == 100

\* line 73: the divisor of the hue, count as f64 / 100.0
HueDivisor == 100

\* line 40: the ranges given to build_cartesian_2d, -2.1..0.6 and -1.2..1.2.
RealStart == ((0 - 21) * Scale) \div 10

RealEnd == (6 * Scale) \div 10

ImagStart == ((0 - 12) * Scale) \div 10

ImagEnd == (12 * Scale) \div 10

\* A colour component as a ratio <<numerator, denominator>>.
Ratio(a, b) == <<a, b>>

\* plotters' BLACK
BLACK == <<"rgb", Ratio(0, 1), Ratio(0, 1), Ratio(0, 1)>>

\* plotters' HSLColor(h, s, l)
HSLColor(h, s, l) == <<"hsl", h, s, l>>

\* lines 72-76: the colour passed to draw_pixel.
\* (faulty variant: the in-set case is forgotten.)
ColourAlwaysHue(count) == HSLColor(Ratio(count, HueDivisor), Ratio(1, 1), Ratio(1, 2))

Colour(count) ==
    IF count # NUM_CONVERGE
    THEN HSLColor(Ratio(count, HueDivisor), Ratio(1, 1), Ratio(1, 2))
    ELSE BLACK

\* line 64: k % samples.0
PixelCol(kk, s) == kk % s[1]

\* line 65: k / samples.0   (faulty variant: divided by samples.1.)
PixelRowByHeight(kk, s) == kk \div s[2]

PixelRow(kk, s) == kk \div s[1]

\* line 62: the end of the range 0..(samples.0 * samples.1).
\* (faulty variant: the range is one short.)
LoopEndShort(s) == s[1] * s[2] - 1

LoopEnd(s) == s[1] * s[2]

\* lines 55-58
Steps(s) == <<DivBy(RealEnd - RealStart, s[1]), DivBy(ImagEnd - ImagStart, s[2])>>

\* lines 63-66: the coordinate of pixel k.
PixelCoord(kk, s, st) == Cx(RealStart + st[1] * PixelCol(kk, s),
                            ImagStart + st[2] * PixelRow(kk, s))

\* A collaborator call as recorded in the history.
Call(op, ok) == [op |-> op, ok |-> ok]

\* A draw_pixel call (lines 73, 75) as recorded in the history.
PixelCall(kk, s, st, ok) ==
    [op |-> "draw_pixel", ok |-> ok, k |-> kk,
     col |-> PixelCol(kk, s), row |-> PixelRow(kk, s),
     coord |-> PixelCoord(kk, s, st),
     count |-> mandelbrot(PixelCoord(kk, s, st), NUM_CONVERGE),
     colour |-> Colour(mandelbrot(PixelCoord(kk, s, st), NUM_CONVERGE))]

\* lines 4-5 and 32: main calls draw_mandelbrot.
InitRender ==
    /\ EvalIdle
    /\ rpc = "fill"
    /\ samples = <<0, 0>>
    /\ step = <<0, 0>>
    /\ k = 0
    /\ calls = <<>>

\* line 34: root.fill(&WHITE)?
Fill ==
    /\ rpc = "fill"
    /\ \E ok \in BOOLEAN :
        /\ calls' = Append(calls, Call("fill", ok))
        /\ rpc' = IF ok THEN "build" ELSE "err"
    /\ UNCHANGED <<samples, step, k, evalVars>>

\* lines 36-40: ChartBuilder ... build_cartesian_2d(..)?
BuildChart ==
    /\ rpc = "build"
    /\ \E ok \in BOOLEAN :
        /\ calls' = Append(calls, Call("build_cartesian_2d", ok))
        /\ rpc' = IF ok THEN "mesh" ELSE "err"
    /\ UNCHANGED <<samples, step, k, evalVars>>

\* lines 42-46: chart.configure_mesh() ... .draw()?
DrawMesh ==
    /\ rpc = "mesh"
    /\ \E ok \in BOOLEAN :
        /\ calls' = Append(calls, Call("draw_mesh", ok))
        /\ rpc' = IF ok THEN "range" ELSE "err"
    /\ UNCHANGED <<samples, step, k, evalVars>>

\* lines 48-58: the pixel range of the plotting area, the samples and the steps.
GetPixelRange ==
    /\ rpc = "range"
    /\ \E w \in 1 .. MaxW, h \in 1 .. MaxH :
        /\ samples' = <<w, h>>
        /\ step' = Steps(<<w, h>>)
    /\ k' = 0
    /\ rpc' = "loop"
    /\ UNCHANGED <<calls, evalVars>>

\* lines 62-77, draw_pixel returning Ok: one pixel is evaluated and drawn.
DrawPixel ==
    /\ rpc = "loop"
    /\ k < LoopEnd(samples)
    /\ calls' = Append(calls, PixelCall(k, samples, step, TRUE))
    /\ k' = k + 1
    /\ UNCHANGED <<rpc, samples, step, evalVars>>

\* lines 62-77, draw_pixel returning Err: `?` returns the error.
\* (faulty variant: the error is dropped and the loop goes on.)
DrawPixelErrIgnored ==
    /\ rpc = "loop"
    /\ k < LoopEnd(samples)
    /\ calls' = Append(calls, PixelCall(k, samples, step, FALSE))
    /\ k' = k + 1
    /\ UNCHANGED <<rpc, samples, step, evalVars>>

DrawPixelErr ==
    /\ rpc = "loop"
    /\ k < LoopEnd(samples)
    /\ calls' = Append(calls, PixelCall(k, samples, step, FALSE))
    /\ rpc' = "err"
    /\ UNCHANGED <<samples, step, k, evalVars>>

\* line 62: the range is exhausted.
LoopDone ==
    /\ rpc = "loop"
    /\ ~(k < LoopEnd(samples))
    /\ rpc' = "present"
    /\ UNCHANGED <<samples, step, k, calls, evalVars>>

\* line 79: root.present().expect(..): an Err panics.
Present ==
    /\ rpc = "present"
    /\ \E ok \in BOOLEAN :
        /\ calls' = Append(calls, Call("present", ok))
        /\ rpc' = IF ok THEN "println" ELSE "panicked"
    /\ UNCHANGED <<samples, step, k, evalVars>>

\* lines 80-82: the success line, then Ok(()).
Println ==
    /\ rpc = "println"
    /\ calls' = Append(calls, Call("println", TRUE))
    /\ rpc' = "ok"
    /\ UNCHANGED <<samples, step, k, evalVars>>

\* line 5: draw_mandelbrot().unwrap() on Ok: main returns.
MainReturn ==
    /\ rpc = "ok"
    /\ rpc' = "exit"
    /\ UNCHANGED <<samples, step, k, calls, evalVars>>

\* line 5: draw_mandelbrot().unwrap() on Err: main panics.
MainUnwrapErr ==
    /\ rpc = "err"
    /\ rpc' = "panicked"
    /\ UNCHANGED <<samples, step, k, calls, evalVars>>

NextRender ==
    \/ Fill
    \/ BuildChart
    \/ DrawMesh
    \/ GetPixelRange
    \/ DrawPixel
    \/ DrawPixelErr
    \/ LoopDone
    \/ Present
    \/ Println
    \/ MainReturn
    \/ MainUnwrapErr

SpecRender == InitRender /\ [][NextRender]_vars

\* ----------------------------------------------------- consistency checks

\* The step-by-step call and the function agree on every call that returns
\* without the counter having wrapped, and a panic is a NoReturn.
EvalAgreesWithFunction ==
    /\ (pc = "returned" /\ ~wrapped) => ret = mandelbrot(c, num_iterations)
    /\ (pc = "panicked" \/ wrapped) => mandelbrot(c, num_iterations) = NoReturn

\* -------------------------------------------- properties of mandelbrot

\* |p| > 2, stated on the coordinate itself.
OutsideRadius2(p) == Re(p) * Re(p) + Im(p) * Im(p) > 4 * Scale * Scale

\* The call came to its end by returning, with no overflow on the way.
CleanRun == pc # "panicked" /\ ~wrapped

\* C1 as stated: for every budget N >= 1 and every c with |c| > 2 the call
\* returns 0.
C1_OutsideRadiusReturnsZero ==
    (pc = "returned" /\ num_iterations >= 1 /\ OutsideRadius2(c)) => ret = 0

\* C1 amended: for every budget N >= 1 and every c with |c| > 2 the call
\* returns 1: the first check (z = 0) passes, one application makes z = c, and
\* the second check, made with diverge_count = 1, fires.  The call makes no
\* more than two checks and one application, so it returns.
C1_OutsideRadiusReturnsOne ==
    (num_iterations >= 1 /\ OutsideRadius2(c)) =>
        /\ CleanRun
        /\ checks <= 2
        /\ applied <= 1
        /\ pc = "returned" => (ret = 1 /\ breached /\ checks = 2 /\ applied = 1)

C1_Witness ==
    /\ pc = "returned"
    /\ num_iterations >= 2
    /\ OutsideRadius2(c)
    /\ ret = 1

\* C2: the budget is returned only for points not found to diverge: whenever
\* a bound check finds |z| > 2, the returned count is strictly smaller than
\* the budget and equals the iteration index of the check that found the
\* breach.
C2_BreachReturnsBelowBudget ==
    breached => (pc = "returned" /\ ret < num_iterations /\ ret = applied)

\* What the code does instead (holds): a check that finds |z| > 2 returns the
\* value diverge_count has at that check, which is at most the budget and, the
\* counter not having wrapped, is the number of applications made before the
\* check.  It is the budget itself exactly when the breach is found by the
\* check made with diverge_count = budget.  Every returned value smaller than
\* the budget is a detected breach.
BreachReturnsCounter ==
    /\ breached =>
        /\ pc = "returned"
        /\ ret = diverge_count
        /\ ret <= num_iterations
        /\ ~wrapped => ret = applied
        /\ (~wrapped /\ ret = num_iterations) => checks = num_iterations + 1
    /\ (pc = "returned" /\ ret < num_iterations) => breached
    /\ (pc = "returned" /\ ~breached) => ret = num_iterations

\* A breach found by the check made with diverge_count = budget (reachable).
BreachAtBudget ==
    /\ breached
    /\ pc = "returned"
    /\ num_iterations >= 2
    /\ ret = num_iterations

\* C3: for every budget N >= 0, mandelbrot(0+0i, N) returns exactly N: z stays
\* at 0 at every step, no bound check fires, and the call comes to its return
\* (it does not abort, and its counter does not wrap around).
C3_OriginReturnsBudget ==
    c = Origin =>
        /\ z = Cx(0, 0)
        /\ ~breached
        /\ CleanRun
        /\ pc = "returned" => ret = num_iterations

\* The same for the budgets below u32::MAX (holds).
OriginReturnsBudgetBelowMax ==
    (c = Origin /\ num_iterations < U32Max) =>
        /\ z = Cx(0, 0)
        /\ ~breached
        /\ CleanRun
        /\ checks <= num_iterations + 1
        /\ pc = "returned" => (ret = num_iterations /\ checks = num_iterations + 1)

\* The reference escape-time operator of C4: z_0 = 0, z_(k+1) = z_k^2 + c; the
\* test |z_k| > 2 is made before the (k+1)-th application; the first k where it
\* holds is the result, and the budget is the result once budget applications
\* are completed.
RefStart == [k |-> 0, z |-> <<0, 0>>, done |-> FALSE, result |-> 0]

RefSquarePlus(w, cc) ==
    <<Mul(w[1], w[1]) - Mul(w[2], w[2]) + cc[1],
      Mul(w[1], w[2]) + Mul(w[2], w[1]) + cc[2]>>

RefStep(cc, n, st) ==
    IF st.done THEN st
    ELSE IF st.k = n THEN [st EXCEPT !.done = TRUE, !.result = n]
    ELSE IF OutsideRadius2(st.z) THEN [st EXCEPT !.done = TRUE, !.result = st.k]
    ELSE [st EXCEPT !.k = st.k + 1, !.z = RefSquarePlus(st.z, cc)]

RECURSIVE RefSteps(_, _, _, _)
RefSteps(cc, n, st, m) ==
    IF m = 0 THEN st
    ELSE IF m = 1 THEN RefStep(cc, n, st)
    ELSE LET half == RefSteps(cc, n, st, m \div 2)
         IN  IF half.done THEN half
             ELSE RefSteps(cc, n, half, m - (m \div 2))

EscapeTime(cc, n) == RefSteps(cc, n, RefStart, n + 1).result

\* C4: mandelbrot(c, budget) agrees with the reference escape-time operator
\* for every c and budget: the call comes to its return (no abort, no wrapped
\* counter) and the value returned is EscapeTime(c, budget).
C4_AgreesWithReference ==
    /\ CleanRun
    /\ pc = "returned" => ret = EscapeTime(c, num_iterations)

\* The same for the budgets below u32::MAX (holds).
AgreesWithReferenceBelowMax ==
    num_iterations < U32Max =>
        /\ CleanRun
        /\ pc = "returned" => ret = EscapeTime(c, num_iterations)

\* C5: the value returned lies in 0 .. budget, and with budget = 0 the call
\* returns 0 whatever c is, after at most one check.
C5_ResultInRange ==
    /\ pc = "returned" => (0 <= ret /\ ret <= num_iterations)
    /\ num_iterations = 0 =>
        /\ CleanRun
        /\ checks <= 1
        /\ pc = "returned" => ret = 0

C5_Witness ==
    /\ pc = "returned"
    /\ num_iterations = 0
    /\ OutsideRadius2(c)
    /\ ret = 0
    /\ applied = 1

\* C10: for every c and every budget of the counter's type, u32::MAX
\* included, the call terminates: it makes at most budget + 1 bound checks and
\* diverge_count += 1 never overflows (no panic, no wrap-around).
C10_NoOverflow ==
    /\ CleanRun
    /\ checks <= num_iterations + 1
    /\ diverge_count <= U32Max

\* The same for the budgets below u32::MAX (holds).
NoOverflowBelowMax ==
    num_iterations < U32Max =>
        /\ CleanRun
        /\ checks <= num_iterations + 1
        /\ diverge_count <= num_iterations + 1

\* Under fairness, a call with a budget below u32::MAX returns (holds), and a
\* call with budget u32::MAX at the origin returns (violated).
BelowMaxReturns == (num_iterations < U32Max) ~> (pc = "returned")

OriginReturns == (c = Origin) ~> (pc = "returned")

\* --------------------------------------- properties of draw_mandelbrot

IsPixel(e) == e.op = "draw_pixel"

\* The draw_pixel calls made so far, in order.
PixelCalls == SelectSeq(calls, IsPixel)

\* The positions in the history of the calls of operation op.
CallsOf(op) == {i \in 1 .. Len(calls) : calls[i].op = op}

\* The number of draw_pixel calls among the first n calls of the history.
PixelsBefore(n) == Cardinality({i \in 1 .. n : calls[i].op = "draw_pixel"})

\* C6: in a render that completes without error every cell (col, row) of the
\* grid is visited exactly once, in row-major order (col = k mod width,
\* row = k div width for k = 0 .. width*height - 1), and draw_pixel is called
\* exactly once for it.
C6_EveryCellOnce ==
    rpc \in {"ok", "exit"} =>
        LET P == PixelCalls
            w == samples[1]
            h == samples[2]
        IN  /\ Len(P) = w * h
            /\ \A i \in 1 .. Len(P) :
                /\ P[i].ok
                /\ P[i].k = i - 1
                /\ P[i].col = (i - 1) % w
                /\ P[i].row = (i - 1) \div w
            /\ \A col \in 0 .. w - 1, row \in 0 .. h - 1 :
                Cardinality({i \in 1 .. Len(P) :
                                P[i].col = col /\ P[i].row = row}) = 1

C6_Witness ==
    /\ rpc = "exit"
    /\ samples[1] >= 2
    /\ samples[2] >= 2
    /\ samples[1] # samples[2]
    /\ Len(PixelCalls) = samples[1] * samples[2]

\* C7: for every pixel the colour passed to draw_pixel is black if and only
\* if the escape count of the pixel is the budget; otherwise it is an HSL
\* colour with saturation 1, lightness 1/2 and hue escape_count / budget, a
\* value in [0, 1).
C7_ColourPolicy ==
    \A i \in CallsOf("draw_pixel") :
        LET e == calls[i]
            n == mandelbrot(e.coord, NUM_CONVERGE)
        IN  /\ e.count = n
            /\ (e.colour = <<"rgb", <<0, 1>>, <<0, 1>>, <<0, 1>>>>) <=> (n = NUM_CONVERGE)
            /\ n # NUM_CONVERGE =>
                /\ e.colour[1] = "hsl"
                /\ e.colour[2][1] * NUM_CONVERGE = n * e.colour[2][2]
                /\ 0 <= e.colour[2][1]
                /\ e.colour[2][1] < e.colour[2][2]
                /\ e.colour[3] = <<1, 1>>
                /\ e.colour[4] = <<1, 2>>

C7_Witness ==
    /\ \E i \in CallsOf("draw_pixel") :
        calls[i].count = NUM_CONVERGE /\ calls[i].colour[1] = "rgb"
    /\ \E i \in CallsOf("draw_pixel") :
        /\ calls[i].count > 1
        /\ calls[i].count < NUM_CONVERGE
        /\ calls[i].colour[1] = "hsl"

\* C8: a failed draw_pixel is the last collaborator call of the run: the error
\* leaves draw_mandelbrot (main's unwrap then panics), no later pixel is
\* evaluated or written, the write is not retried, present() is not invoked
\* and the success line is not printed.
C8_PixelFailureAborts ==
    \A i \in CallsOf("draw_pixel") :
        ~calls[i].ok =>
            /\ i = Len(calls)
            /\ rpc \in {"err", "panicked"}
            /\ k = calls[i].k
            /\ PixelsBefore(i) = calls[i].k + 1

C8_Witness ==
    /\ rpc = "panicked"
    /\ Len(calls) > 0
    /\ calls[Len(calls)].op = "draw_pixel"
    /\ ~calls[Len(calls)].ok
    /\ calls[Len(calls)].k >= 1
    /\ calls[Len(calls)].k + 1 < samples[1] * samples[2]

\* C9: the collaborator calls are ordered: the background fill is made exactly
\* once, as the first call, before any draw_pixel; present() is invoked at
\* most once and only after draw_pixel has been called for every cell, the
\* last one included; the success line is printed at most once and only
\* right after a present() that succeeded; a failed present() is fatal and
\* prints nothing.
C9_CallOrder ==
    /\ Cardinality(CallsOf("fill")) <= 1
    /\ rpc # "fill" => (CallsOf("fill") = {1})
    /\ \A i \in CallsOf("draw_pixel") : calls[1].op = "fill" /\ calls[1].ok
    /\ Cardinality(CallsOf("present")) <= 1
    /\ \A i \in CallsOf("present") :
        /\ PixelsBefore(i) = samples[1] * samples[2]
        /\ calls[i - 1].op = "draw_pixel"
        /\ calls[i - 1].ok
        /\ calls[i - 1].col = samples[1] - 1
        /\ calls[i - 1].row = samples[2] - 1
        /\ ~calls[i].ok => (rpc = "panicked" /\ i = Len(calls))
    /\ Cardinality(CallsOf("println")) <= 1
    /\ \A i \in CallsOf("println") :
        /\ i = Len(calls)
        /\ calls[i - 1].op = "present"
        /\ calls[i - 1].ok

C9_Witness ==
    /\ rpc = "exit"
    /\ samples[1] * samples[2] >= 4
    /\ calls[Len(calls)].op = "println"
    /\ calls[Len(calls) - 1].op = "present"

====
